---------------------------- MODULE Spec2Model ----------------------------
(***************************************************************************)
(* Model of the compound-proof assembly of the DRG proof of replication    *)
(* (storage-proofs/src/porep/drg/compound.rs) and of the stacked column    *)
(* (storage-proofs/src/stacked/column.rs).                                 *)
(*                                                                         *)
(* Every operation of the two files is a pure function of its arguments;   *)
(* the state of the model is one call: the operation, its arguments and    *)
(* what it returned.  Option<T> is a sequence of length 0 (None) or 1      *)
(* (Some), Result<T> a record with the flag ok.                            *)
(***************************************************************************)
EXTENDS Integers, Sequences, FiniteSets, TLC

VARIABLES pc, op, pub_in, pub_params, cpi, proof, column, layer, ret

vars == <<pc, op, pub_in, pub_params, cpi, proof, column, layer, ret>>

---------------------------------------------------------------------------
(* Bounds of the explored inputs *)

MaxChallenges == 2
MaxDegree == 2
MaxLogNodes == 2
MaxRows == 3
MaxNode == 3
MaxVal == 1

(* Program constants.  The integer widths are scaled to what TLC's integers
   hold: u32 is 16 bits wide here and usize wider, so that `as u32` still
   truncates a usize that does not fit. *)

U32Modulus == 65536
arity == 2

---------------------------------------------------------------------------
(* Option, Result and the value types *)

None == <<>>
Some(x) == <<x>>
is_none(o) == o = None
is_some(o) == o # None

Ok(x) == [ok |-> TRUE, val |-> x, err |-> ""]
Err(e) == [ok |-> FALSE, val |-> <<>>, err |-> e]
Panic == [ok |-> FALSE, val |-> <<>>, err |-> "panic"]

Dom(n) == <<"Domain", n>>
Fr(n) == <<"Fr", n>>
PedersenDom(n) == <<"PedersenDomain", n>>

DomainIntoFr(d) == Fr(d[2])
FrIntoPedersenDomain(f) == PedersenDom(f[2])
AsU32(n) == n % U32Modulus

SeqsUpTo(S, n) == UNION {[1..k -> S] : k \in 0..n}

RECURSIVE Pow2(_)
Pow2(k) == IF k = 0 THEN 1 ELSE 2 * Pow2(k - 1)

RECURSIVE Log2(_)
Log2(n) == IF n <= 1 THEN 0 ELSE 1 + Log2(n \div 2)

---------------------------------------------------------------------------
(* The graph capability: size, degree, parents, merkle_tree_depth *)

graph_size(g) == g.nodes
graph_degree(g) == g.degree
merkle_tree_depth(g) == Log2(g.nodes) + 1

ParentAt(g, node, j) ==
    IF node = 0 THEN 0 ELSE (g.seed * j) % node

(* parents(node, &mut parents): fails when the node is out of range, else
   writes the node's `degree` parents into the caller's buffer *)
graph_parents(g, node, buf) ==
    IF node >= g.nodes THEN Err("out of range")
    ELSE Ok([j \in 1..Len(buf) |->
                IF j <= g.degree THEN ParentAt(g, node, j) ELSE buf[j]])

---------------------------------------------------------------------------
(* The PoR sub-scheme: one block of public inputs for one node *)

PackedAuthPath(challenge, leaves) == Fr(challenge % leaves)

PoRPublicInputs(por_pub_inputs, por_pub_params) ==
    <<PackedAuthPath(por_pub_inputs.challenge, por_pub_params.leaves)>>
    \o (IF is_some(por_pub_inputs.commitment)
        THEN <<DomainIntoFr(por_pub_inputs.commitment[1])>>
        ELSE <<>>)

---------------------------------------------------------------------------
(* DrgPoRepCompound::generate_public_inputs *)

gpi_privacy_ok_NoCheckWhenTauSet(pi, pp) ==
    is_none(pi.tau) => pp.private

gpi_privacy_ok(pi, pp) ==
    is_none(pi.tau) = pp.private

por_nodes(challenge, parents) ==
    <<AsU32(challenge)>> \o parents

RECURSIVE ReplicaBlocks(_, _, _, _)
ReplicaBlocks(nodes, i, comm_r, por_pub_params) ==
    IF i > Len(nodes) THEN <<>>
    ELSE PoRPublicInputs([commitment |-> comm_r, challenge |-> nodes[i]],
                         por_pub_params)
         \o ReplicaBlocks(nodes, i + 1, comm_r, por_pub_params)

DataBlock_Omitted(challenge, comm_d, por_pub_params) ==
    <<>>

DataBlock(challenge, comm_d, por_pub_params) ==
    PoRPublicInputs([commitment |-> comm_d, challenge |-> challenge],
                    por_pub_params)

(* the loop with graph.parents called for the first challenge only *)
RECURSIVE ChallengeLoop_StaleParents(_, _, _, _, _, _, _, _)
ChallengeLoop_StaleParents(challenges, k, input, parents, comm_r, comm_d, graph, por_pub_params) ==
    IF k > Len(challenges) THEN Ok(input)
    ELSE LET challenge == challenges[k]
             r == IF k = 1 THEN graph_parents(graph, challenge, parents)
                  ELSE Ok(parents)
         IN  IF ~r.ok THEN r
             ELSE ChallengeLoop_StaleParents(
                    challenges, k + 1,
                    input
                      \o ReplicaBlocks(por_nodes(challenge, r.val), 1, comm_r,
                                       por_pub_params)
                      \o DataBlock(challenge, comm_d, por_pub_params),
                    r.val, comm_r, comm_d, graph, por_pub_params)

RECURSIVE ChallengeLoop(_, _, _, _, _, _, _, _)
ChallengeLoop(challenges, k, input, parents, comm_r, comm_d, graph, por_pub_params) ==
    IF k > Len(challenges) THEN Ok(input)
    ELSE LET challenge == challenges[k]
             r == graph_parents(graph, challenge, parents)
         IN  IF ~r.ok THEN r
             ELSE ChallengeLoop(
                    challenges, k + 1,
                    input
                      \o ReplicaBlocks(por_nodes(challenge, r.val), 1, comm_r,
                                       por_pub_params)
                      \o DataBlock(challenge, comm_d, por_pub_params),
                    r.val, comm_r, comm_d, graph, por_pub_params)

generate_public_inputs(pi, pp) ==
    IF is_none(pi.replica_id) THEN Err("missing replica id")
    ELSE IF ~gpi_privacy_ok(pi, pp)
    THEN Err("Public input parameter tau must be unset")
    ELSE LET comm_r == IF is_none(pi.tau) THEN None ELSE Some(pi.tau[1].comm_r)
             comm_d == IF is_none(pi.tau) THEN None ELSE Some(pi.tau[1].comm_d)
             por_pub_params == [leaves |-> graph_size(pp.graph),
                                private |-> pp.private]
         IN  ChallengeLoop(pi.challenges, 1,
                           <<DomainIntoFr(pi.replica_id[1])>>,
                           [j \in 1..graph_degree(pp.graph) |-> 0],
                           comm_r, comm_d, pp.graph, por_pub_params)

---------------------------------------------------------------------------
(* Column *)

RECURSIVE EncodeRows(_, _)
EncodeRows(rows, i) ==
    IF i > Len(rows) THEN 0
    ELSE (rows[i][2] + 1) + (MaxVal + 2) * EncodeRows(rows, i + 1)

(* the column hash function, injective on the explored row sequences and
   disjoint from the row values *)
hash_single_column(rows) == PedersenDom(MaxVal + 1 + EncodeRows(rows, 1))

Column_hash_AlwaysHashes(col) ==
    hash_single_column(col.rows)

Column_hash(col) ==
    IF Len(col.rows) = 1
    THEN FrIntoPedersenDomain(DomainIntoFr(col.rows[1]))
    ELSE hash_single_column(col.rows)

get_node_at_layer_ZeroBased(col, l) ==
    IF l + 1 > Len(col.rows) THEN Panic ELSE Ok(col.rows[l + 1])

get_node_at_layer(col, l) ==
    IF ~(l > 0) THEN Panic
    ELSE LET row_index == l - 1
         IN  IF row_index >= Len(col.rows) THEN Panic
             ELSE Ok(col.rows[row_index + 1])

---------------------------------------------------------------------------
(* DrgPoRepCompound::circuit *)

(* MerkleProof::as_options: every sibling and every index wrapped in Some *)
as_options(path) ==
    [i \in 1..Len(path) |->
        [sibs |-> [s \in 1..Len(path[i].sibs) |->
                      Some(DomainIntoFr(path[i].sibs[s]))],
         index |-> Some(path[i].index)]]

RootVal(o) == <<"Val", o>>
RootVar(o) == <<"Var", o>>

circuit_len_error_NoReplicaNodesCheck(prf, pp) ==
    LET len == Len(prf.nodes)
    IN  IF ~(len <= pp.challenges_count) THEN "too many challenges"
        ELSE IF Len(prf.replica_parents) # len
        THEN "Number of replica parents must match"
        ELSE ""

(* the three ensure! of the entry of circuit; "" when all pass *)
circuit_len_error(prf, pp) ==
    LET len == Len(prf.nodes)
    IN  IF ~(len <= pp.challenges_count) THEN "too many challenges"
        ELSE IF Len(prf.replica_parents) # len
        THEN "Number of replica parents must match"
        ELSE IF Len(prf.replica_nodes) # len
        THEN "Number of replica nodes must match"
        ELSE ""

circuit_roots_Swapped(is_private, c, prf) ==
    IF is_private
    THEN IF is_none(c.comm_d) \/ is_none(c.comm_r) THEN Err("is_private")
         ELSE Ok([data_root |-> c.comm_r[1], replica_root |-> c.comm_d[1]])
    ELSE Ok([data_root |-> RootVal(Some(DomainIntoFr(prf.replica_root))),
             replica_root |-> RootVal(Some(DomainIntoFr(prf.data_root)))])

circuit_roots(is_private, c, prf) ==
    IF is_private
    THEN IF is_none(c.comm_d) THEN Err("is_private")
         ELSE IF is_none(c.comm_r) THEN Err("is_private")
         ELSE Ok([data_root |-> c.comm_d[1], replica_root |-> c.comm_r[1]])
    ELSE Ok([data_root |-> RootVal(Some(DomainIntoFr(prf.data_root))),
             replica_root |-> RootVal(Some(DomainIntoFr(prf.replica_root)))])

node_values(nodes) ==
    [i \in 1..Len(nodes) |-> Some(DomainIntoFr(nodes[i].data))]

node_paths(nodes) ==
    [i \in 1..Len(nodes) |-> as_options(nodes[i].proof)]

replica_parents_values_DropLast(prf) ==
    [i \in 1..Len(prf.replica_parents) |->
        [j \in 1..(Len(prf.replica_parents[i]) - 1) |->
            Some(DomainIntoFr(prf.replica_parents[i][j][2].data))]]

replica_parents_values(prf) ==
    [i \in 1..Len(prf.replica_parents) |->
        [j \in 1..Len(prf.replica_parents[i]) |->
            Some(DomainIntoFr(prf.replica_parents[i][j][2].data))]]

replica_parents_paths(prf) ==
    [i \in 1..Len(prf.replica_parents) |->
        [j \in 1..Len(prf.replica_parents[i]) |->
            as_options(prf.replica_parents[i][j][2].proof)]]

circuit_privacy_ok_Unchecked(pi, pp) ==
    TRUE

circuit_privacy_ok(pi, pp) ==
    is_none(pi.tau) = pp.private

circuit(pi, c, prf, pp) ==
    LET e == circuit_len_error(prf, pp)
        roots == circuit_roots(pp.private, c, prf)
    IN  IF e # "" THEN Err(e)
        ELSE IF ~roots.ok THEN roots
        ELSE IF ~circuit_privacy_ok(pi, pp) THEN Err("inconsistent private state")
        ELSE Ok([replica_nodes |-> node_values(prf.replica_nodes),
                 replica_nodes_paths |-> node_paths(prf.replica_nodes),
                 replica_root |-> roots.val.replica_root,
                 replica_parents |-> replica_parents_values(prf),
                 replica_parents_paths |-> replica_parents_paths(prf),
                 data_nodes |-> node_values(prf.nodes),
                 data_nodes_paths |-> node_paths(prf.nodes),
                 data_root |-> roots.val.data_root,
                 replica_id |-> IF is_none(pi.replica_id) THEN None
                                ELSE Some(DomainIntoFr(pi.replica_id[1])),
                 private |-> pp.private])

---------------------------------------------------------------------------
(* DrgPoRepCompound::blank_circuit *)

Vec(x, n) == [i \in 1..n |-> x]

BlankPath(depth) == Vec([sibs |-> Vec(None, arity - 1), index |-> None], depth - 1)

blank_circuit_FullDepth(pp) ==
    LET depth == merkle_tree_depth(pp.graph) + 1
        degree == graph_degree(pp.graph)
        challenges_count == pp.challenges_count
    IN  [replica_nodes |-> Vec(None, challenges_count),
         replica_nodes_paths |-> Vec(BlankPath(depth), challenges_count),
         replica_root |-> RootVal(None),
         replica_parents |-> Vec(Vec(None, degree), challenges_count),
         replica_parents_paths |->
             Vec(Vec(BlankPath(depth), degree), challenges_count),
         data_nodes |-> Vec(None, challenges_count),
         data_nodes_paths |-> Vec(BlankPath(depth), challenges_count),
         data_root |-> RootVal(None),
         replica_id |-> None,
         private |-> pp.private]

blank_circuit(pp) ==
    LET depth == merkle_tree_depth(pp.graph)
        degree == graph_degree(pp.graph)
        challenges_count == pp.challenges_count
    IN  [replica_nodes |-> Vec(None, challenges_count),
         replica_nodes_paths |-> Vec(BlankPath(depth), challenges_count),
         replica_root |-> RootVal(None),
         replica_parents |-> Vec(Vec(None, degree), challenges_count),
         replica_parents_paths |->
             Vec(Vec(BlankPath(depth), degree), challenges_count),
         data_nodes |-> Vec(None, challenges_count),
         data_nodes_paths |-> Vec(BlankPath(depth), challenges_count),
         data_root |-> RootVal(None),
         replica_id |-> None,
         private |-> pp.private]

---------------------------------------------------------------------------
(* The explored inputs *)

Seeds == {1, 2}

Graphs ==
    {[nodes |-> Pow2(k), degree |-> d, seed |-> s] :
        k \in 1..MaxLogNodes, d \in 1..MaxDegree, s \in Seeds}

(* circuit and blank_circuit read the graph's size and degree only *)
CircuitGraphs == {g \in Graphs : g.seed = 1}

ChallengeValues == (0..MaxNode) \cup {U32Modulus + 1}

ReplicaIds == {None, Some(Dom(3))}

Taus == {None, Some([comm_r |-> Dom(5), comm_d |-> Dom(6)])}

ComponentPrivateInputs ==
    {[comm_d |-> d, comm_r |-> r] :
        d \in {None, Some(RootVar(Some(Fr(7))))},
        r \in {None, Some(RootVar(Some(Fr(8))))}}

MkPath(len, pos) ==
    [i \in 1..len |-> [sibs |-> Vec(Dom(pos + i), arity - 1),
                       index |-> (pos + i) % 2]]

MkEntry(base, pos, len) ==
    [data |-> Dom(base + pos), proof |-> MkPath(len, pos)]

MkBundle(i, size, len) ==
    [j \in 1..size |-> <<j - 1, MkEntry(30 + 10 * i, j, len)>>]

MkProof(nNodes, nReplica, sizes, len) ==
    [nodes |-> [i \in 1..nNodes |-> MkEntry(10, i, len)],
     replica_nodes |-> [i \in 1..nReplica |-> MkEntry(20, i, len)],
     replica_parents |-> [i \in 1..Len(sizes) |-> MkBundle(i, sizes[i], len)],
     data_root |-> Dom(1),
     replica_root |-> Dom(2)]

(* every bundle of `degree` parents, or one bundle one parent off *)
BundleSizes(n, degree) ==
    {[i \in 1..n |-> IF i = k THEN degree + d ELSE degree] :
        k \in 0..n, d \in {-1, 1}}

(* a length equal to n or one off *)
Near(n) == {m \in 0..MaxChallenges : m - n \in {-1, 0, 1}}

Proofs(g) ==
    UNION {
      {MkProof(nNodes, nReplica, sizes, len) :
          nReplica \in Near(nNodes),
          sizes \in UNION {BundleSizes(n, g.degree) : n \in Near(nNodes)},
          len \in {Log2(g.nodes), Log2(g.nodes) + 1}} :
      nNodes \in 0..MaxChallenges}

Columns ==
    {[index |-> 0, rows |-> rows] :
        rows \in SeqsUpTo({Dom(v) : v \in 0..MaxVal}, MaxRows)}

NoArg == <<>>

---------------------------------------------------------------------------
(* The calls *)

Init ==
    /\ pc = "idle"
    /\ op = "none"
    /\ pub_in = NoArg
    /\ pub_params = NoArg
    /\ cpi = NoArg
    /\ proof = NoArg
    /\ column = NoArg
    /\ layer = 0
    /\ ret = NoArg

GeneratePublicInputs ==
    /\ pc = "idle"
    /\ \E rid \in ReplicaIds, ch \in SeqsUpTo(ChallengeValues, MaxChallenges),
          tau \in Taus, g \in Graphs, private \in BOOLEAN :
         LET pi == [replica_id |-> rid, challenges |-> ch, tau |-> tau]
             pp == [graph |-> g, challenges_count |-> MaxChallenges,
                    private |-> private]
         IN  /\ pub_in' = pi
             /\ pub_params' = pp
             /\ ret' = generate_public_inputs(pi, pp)
    /\ pc' = "returned"
    /\ op' = "generate_public_inputs"
    /\ UNCHANGED <<cpi, proof, column, layer>>

CircuitCall ==
    /\ pc = "idle"
    /\ \E rid \in ReplicaIds, tau \in Taus, g \in CircuitGraphs, private \in BOOLEAN,
          cc \in 0..MaxChallenges, c \in ComponentPrivateInputs :
         \E prf \in Proofs(g) :
           LET pi == [replica_id |-> rid,
                      challenges |-> [i \in 1..Len(prf.nodes) |-> i % g.nodes],
                      tau |-> tau]
               pp == [graph |-> g, challenges_count |-> cc, private |-> private]
           IN  /\ pub_in' = pi
               /\ pub_params' = pp
               /\ cpi' = c
               /\ proof' = prf
               /\ ret' = circuit(pi, c, prf, pp)
    /\ pc' = "returned"
    /\ op' = "circuit"
    /\ UNCHANGED <<column, layer>>

BlankCircuitCall ==
    /\ pc = "idle"
    /\ \E g \in CircuitGraphs, private \in BOOLEAN, cc \in 0..MaxChallenges :
         LET pp == [graph |-> g, challenges_count |-> cc, private |-> private]
         IN  /\ pub_params' = pp
             /\ ret' = blank_circuit(pp)
    /\ pc' = "returned"
    /\ op' = "blank_circuit"
    /\ UNCHANGED <<pub_in, cpi, proof, column, layer>>

ColumnHashCall ==
    /\ pc = "idle"
    /\ \E col \in Columns :
         /\ column' = col
         /\ ret' = Column_hash(col)
    /\ pc' = "returned"
    /\ op' = "hash"
    /\ UNCHANGED <<pub_in, pub_params, cpi, proof, layer>>

GetNodeAtLayerCall ==
    /\ pc = "idle"
    /\ \E col \in Columns, l \in 0..(MaxRows + 1) :
         /\ column' = col
         /\ layer' = l
         /\ ret' = get_node_at_layer(col, l)
    /\ pc' = "returned"
    /\ op' = "get_node_at_layer"
    /\ UNCHANGED <<pub_in, pub_params, cpi, proof>>

(* the caller drops the arguments and the result: nothing is kept across
   calls *)
Return ==
    /\ pc = "returned"
    /\ pc' = "idle"
    /\ op' = "none"
    /\ pub_in' = NoArg
    /\ pub_params' = NoArg
    /\ cpi' = NoArg
    /\ proof' = NoArg
    /\ column' = NoArg
    /\ layer' = 0
    /\ ret' = NoArg

Next ==
    \/ GeneratePublicInputs
    \/ CircuitCall
    \/ BlankCircuitCall
    \/ ColumnHashCall
    \/ GetNodeAtLayerCall
    \/ Return

Spec == Init /\ [][Next]_vars

---------------------------------------------------------------------------
(* Properties of generate_public_inputs *)

Returned(o) == pc = "returned" /\ op = o

PrivacyError == "Public input parameter tau must be unset"

(* C1: with a replica id present, generate_public_inputs fails when tau is
   present and private is true, fails when tau is absent and private is
   false, and succeeds only when tau.is_none() == private. *)
C1_PrivacyInvariant ==
    (Returned("generate_public_inputs") /\ is_some(pub_in.replica_id)) =>
        /\ (is_some(pub_in.tau) /\ pub_params.private) =>
               (~ret.ok /\ ret.err = PrivacyError)
        /\ (is_none(pub_in.tau) /\ ~pub_params.private) =>
               (~ret.ok /\ ret.err = PrivacyError)
        /\ ret.ok => (is_none(pub_in.tau) = pub_params.private)

(* a call with a replica id, tau present and private set, which failed *)
C1_Witness ==
    /\ Returned("generate_public_inputs")
    /\ is_some(pub_in.replica_id)
    /\ is_some(pub_in.tau)
    /\ pub_params.private
    /\ ~ret.ok

(* The vector the specification describes, written without the loop's
   buffer: for challenge c, the block of c and the blocks of the parents of
   c against comm_r, then the block of c against comm_d. *)
SpecBlock(commitment, node, pp) ==
    PoRPublicInputs([commitment |-> commitment, challenge |-> node],
                    [leaves |-> graph_size(pp.graph), private |-> pp.private])

RECURSIVE SpecParentBlocks(_, _, _, _)
SpecParentBlocks(c, j, comm_r, pp) ==
    IF j > graph_degree(pp.graph) THEN <<>>
    ELSE SpecBlock(comm_r, ParentAt(pp.graph, c, j), pp)
         \o SpecParentBlocks(c, j + 1, comm_r, pp)

RECURSIVE SpecChallenges(_, _, _, _, _)
SpecChallenges(challenges, k, comm_r, comm_d, pp) ==
    IF k > Len(challenges) THEN <<>>
    ELSE SpecBlock(comm_r, challenges[k], pp)
         \o SpecParentBlocks(challenges[k], 1, comm_r, pp)
         \o SpecBlock(comm_d, challenges[k], pp)
         \o SpecChallenges(challenges, k + 1, comm_r, comm_d, pp)

SpecPublicInputs(pi, pp) ==
    LET comm_r == IF is_none(pi.tau) THEN None ELSE Some(pi.tau[1].comm_r)
        comm_d == IF is_none(pi.tau) THEN None ELSE Some(pi.tau[1].comm_d)
    IN  <<Fr(pi.replica_id[1][2])>>
        \o SpecChallenges(pi.challenges, 1, comm_r, comm_d, pp)

(* C2: on success the returned vector is the replica id, then per challenge
   c in the given order the PoR block of c and of each parent of c in parent
   order against comm_r, then the PoR block of c against comm_d; the parents
   of the k-th challenge are its own. *)
C2_OutputLayout ==
    (Returned("generate_public_inputs") /\ ret.ok) =>
        ret.val = SpecPublicInputs(pub_in, pub_params)

(* a successful call with two challenges whose parents differ *)
C2_Witness ==
    /\ Returned("generate_public_inputs")
    /\ ret.ok
    /\ Len(pub_in.challenges) = 2
    /\ pub_in.challenges[1] # pub_in.challenges[2]
    /\ \E j \in 1..graph_degree(pub_params.graph) :
          ParentAt(pub_params.graph, pub_in.challenges[1], j)
            # ParentAt(pub_params.graph, pub_in.challenges[2], j)

PoR_block_size(pi, pp) ==
    Len(SpecBlock(IF is_none(pi.tau) THEN None ELSE Some(pi.tau[1].comm_r),
                  0, pp))

(* C3: on success the length of the returned vector is
   1 + challenges.len() * ((degree + 1) + 1) * PoR_block_size. *)
C3_OutputLength ==
    (Returned("generate_public_inputs") /\ ret.ok) =>
        Len(ret.val) =
            1 + Len(pub_in.challenges)
                * ((graph_degree(pub_params.graph) + 1) + 1)
                * PoR_block_size(pub_in, pub_params)

(* a successful call with two challenges and a block of two scalars *)
C3_Witness ==
    /\ Returned("generate_public_inputs")
    /\ ret.ok
    /\ Len(pub_in.challenges) = 2
    /\ PoR_block_size(pub_in, pub_params) = 2

---------------------------------------------------------------------------
(* Properties of circuit and blank_circuit *)

PathShape(path) == [l \in 1..Len(path) |-> Len(path[l].sibs)]

(* the structural shape of a witness: how many entries each vector holds,
   how many parents each challenge has, how deep each path is and how many
   siblings each of its levels holds *)
Shape(c) ==
    [replica_nodes |-> Len(c.replica_nodes),
     replica_nodes_paths |->
         [i \in 1..Len(c.replica_nodes_paths) |->
             PathShape(c.replica_nodes_paths[i])],
     replica_parents |->
         [i \in 1..Len(c.replica_parents) |-> Len(c.replica_parents[i])],
     replica_parents_paths |->
         [i \in 1..Len(c.replica_parents_paths) |->
             [j \in 1..Len(c.replica_parents_paths[i]) |->
                 PathShape(c.replica_parents_paths[i][j])]],
     data_nodes |-> Len(c.data_nodes),
     data_nodes_paths |->
         [i \in 1..Len(c.data_nodes_paths) |->
             PathShape(c.data_nodes_paths[i])]]

PathAbsent(path) ==
    \A l \in 1..Len(path) :
        /\ is_none(path[l].index)
        /\ \A s \in 1..Len(path[l].sibs) : is_none(path[l].sibs[s])

AllAbsent(c) ==
    /\ \A i \in 1..Len(c.replica_nodes) : is_none(c.replica_nodes[i])
    /\ \A i \in 1..Len(c.data_nodes) : is_none(c.data_nodes[i])
    /\ \A i \in 1..Len(c.replica_parents) :
          \A j \in 1..Len(c.replica_parents[i]) :
              is_none(c.replica_parents[i][j])
    /\ \A i \in 1..Len(c.replica_nodes_paths) :
          PathAbsent(c.replica_nodes_paths[i])
    /\ \A i \in 1..Len(c.data_nodes_paths) :
          PathAbsent(c.data_nodes_paths[i])
    /\ \A i \in 1..Len(c.replica_parents_paths) :
          \A j \in 1..Len(c.replica_parents_paths[i]) :
              PathAbsent(c.replica_parents_paths[i][j])
    /\ c.replica_root = RootVal(None)
    /\ c.data_root = RootVal(None)
    /\ is_none(c.replica_id)

(* an inclusion path of a tree over the graph's nodes *)
RealPath(path, g) ==
    /\ Len(path) = merkle_tree_depth(g) - 1
    /\ \A l \in 1..Len(path) : Len(path[l].sibs) = arity - 1

(* the invariant of a vanilla proof: as many replica nodes, data nodes and
   parent bundles as challenges, at most challenges_count of them, `degree`
   parents per bundle, and every path an inclusion path of the tree *)
RealProof(prf, pi, pp) ==
    /\ Len(prf.nodes) = Len(pi.challenges)
    /\ Len(prf.replica_nodes) = Len(prf.nodes)
    /\ Len(prf.replica_parents) = Len(prf.nodes)
    /\ Len(prf.nodes) <= pp.challenges_count
    /\ \A i \in 1..Len(prf.nodes) : RealPath(prf.nodes[i].proof, pp.graph)
    /\ \A i \in 1..Len(prf.replica_nodes) :
          RealPath(prf.replica_nodes[i].proof, pp.graph)
    /\ \A i \in 1..Len(prf.replica_parents) :
          /\ Len(prf.replica_parents[i]) = graph_degree(pp.graph)
          /\ \A j \in 1..Len(prf.replica_parents[i]) :
                RealPath(prf.replica_parents[i][j][2].proof, pp.graph)

(* C4 as stated: blank_circuit(public_params) has every value absent and the
   same shape as any witness circuit returns from a real proof under the
   same public parameters (here: from any real proof that answers at least
   one challenge). *)
C4_BlankShapeOfAnyRealProof ==
    /\ Returned("blank_circuit") => AllAbsent(ret)
    /\ (/\ Returned("circuit")
        /\ ret.ok
        /\ RealProof(proof, pub_in, pub_params)
        /\ Len(proof.nodes) >= 1) =>
           Shape(ret.val) = Shape(blank_circuit(pub_params))

(* C4 as amended: blank_circuit(public_params) has every value absent, and
   the same shape as the witness circuit returns from a real proof that
   holds exactly challenges_count entries. *)
C4_BlankShapeOfFullRealProof ==
    /\ Returned("blank_circuit") => AllAbsent(ret)
    /\ (/\ Returned("circuit")
        /\ ret.ok
        /\ RealProof(proof, pub_in, pub_params)
        /\ Len(proof.nodes) = pub_params.challenges_count) =>
           Shape(ret.val) = Shape(blank_circuit(pub_params))

(* a witness built from a real proof of two entries, challenges_count = 2 *)
C4_Witness ==
    /\ Returned("circuit")
    /\ ret.ok
    /\ RealProof(proof, pub_in, pub_params)
    /\ Len(proof.nodes) = pub_params.challenges_count
    /\ pub_params.challenges_count = 2

Positions(prf) == 1..Len(prf.nodes)

(* C5: circuit fails unless proof.nodes.len() <= challenges_count and the
   three lists of the proof have the same length; on success the six witness
   vectors have that length and keep the proof's entry order. *)
C5_LengthChecks ==
    Returned("circuit") =>
        /\ ~(/\ Len(proof.nodes) <= pub_params.challenges_count
             /\ Len(proof.replica_parents) = Len(proof.nodes)
             /\ Len(proof.replica_nodes) = Len(proof.nodes)) => ~ret.ok
        /\ ret.ok =>
            /\ DOMAIN ret.val.replica_nodes = Positions(proof)
            /\ DOMAIN ret.val.replica_nodes_paths = Positions(proof)
            /\ DOMAIN ret.val.replica_parents = Positions(proof)
            /\ DOMAIN ret.val.replica_parents_paths = Positions(proof)
            /\ DOMAIN ret.val.data_nodes = Positions(proof)
            /\ DOMAIN ret.val.data_nodes_paths = Positions(proof)
            /\ \A i \in Positions(proof) :
                /\ ret.val.replica_nodes[i]
                     = Some(Fr(proof.replica_nodes[i].data[2]))
                /\ ret.val.replica_nodes_paths[i]
                     = as_options(proof.replica_nodes[i].proof)
                /\ ret.val.data_nodes[i] = Some(Fr(proof.nodes[i].data[2]))
                /\ ret.val.data_nodes_paths[i]
                     = as_options(proof.nodes[i].proof)
                /\ \A j \in 1..Len(proof.replica_parents[i]) :
                    /\ ret.val.replica_parents[i][j]
                         = Some(Fr(proof.replica_parents[i][j][2].data[2]))
                    /\ ret.val.replica_parents_paths[i][j]
                         = as_options(proof.replica_parents[i][j][2].proof)

(* a witness built from a proof of two entries *)
C5_Witness ==
    /\ Returned("circuit")
    /\ ret.ok
    /\ Len(proof.nodes) = 2

NoComponentPrivateInputs == [comm_d |-> None, comm_r |-> None]

(* C6: in non-private mode the witness roots are the proof's data_root and
   replica_root as present values, whatever the component private inputs; in
   private mode they are the comm_d and comm_r of the component private
   inputs, and the call fails if either is absent. *)
C6_RootsByMode ==
    Returned("circuit") =>
        /\ (~pub_params.private /\ ret.ok) =>
            /\ ret.val.data_root = RootVal(Some(Fr(proof.data_root[2])))
            /\ ret.val.replica_root = RootVal(Some(Fr(proof.replica_root[2])))
        /\ ~pub_params.private =>
            ret = circuit(pub_in, NoComponentPrivateInputs, proof, pub_params)
        /\ (pub_params.private /\ ret.ok) =>
            /\ is_some(cpi.comm_d)
            /\ is_some(cpi.comm_r)
            /\ ret.val.data_root = cpi.comm_d[1]
            /\ ret.val.replica_root = cpi.comm_r[1]
        /\ (pub_params.private /\ (is_none(cpi.comm_d) \/ is_none(cpi.comm_r))) =>
            ~ret.ok

(* a private-mode witness whose roots come from the component inputs *)
C6_Witness ==
    /\ Returned("circuit")
    /\ ret.ok
    /\ pub_params.private
    /\ Len(proof.nodes) > 0

(* C7: circuit fails whenever tau.is_none() != private, for every proof and
   every component private input, so it accepts no pair that
   generate_public_inputs rejects on the privacy check. *)
C7_PrivacyRevalidated ==
    Returned("circuit") =>
        /\ (is_none(pub_in.tau) # pub_params.private) => ~ret.ok
        /\ ret.ok =>
            generate_public_inputs(pub_in, pub_params).err # PrivacyError

(* a call that passes every other check and is rejected on the privacy flag *)
C7_Witness ==
    /\ Returned("circuit")
    /\ is_none(pub_in.tau) # pub_params.private
    /\ ~ret.ok
    /\ ret.err = "inconsistent private state"

(* C10 as stated: in every witness circuit returns, each challenge's
   parent-value bundle and parent-path bundle holds graph.degree() entries,
   so a proof with a bundle of another size yields no witness. *)
C10_BundlesOfDegree ==
    (Returned("circuit") /\ ret.ok) =>
        \A i \in 1..Len(ret.val.replica_parents) :
            /\ Len(ret.val.replica_parents[i]) = graph_degree(pub_params.graph)
            /\ Len(ret.val.replica_parents_paths[i])
                 = graph_degree(pub_params.graph)

(* C10 as amended: in every witness circuit returns, each challenge's
   parent-value bundle and parent-path bundle holds as many entries as the
   proof's replica-parent bundle of that challenge, which is graph.degree()
   entries when the proof's bundle has that size; the size is not checked. *)
C10_BundlesOfProof ==
    (Returned("circuit") /\ ret.ok) =>
        /\ Len(ret.val.replica_parents) = Len(proof.replica_parents)
        /\ Len(ret.val.replica_parents_paths) = Len(proof.replica_parents)
        /\ \A i \in 1..Len(proof.replica_parents) :
            /\ Len(ret.val.replica_parents[i]) = Len(proof.replica_parents[i])
            /\ Len(ret.val.replica_parents_paths[i])
                 = Len(proof.replica_parents[i])
            /\ Len(proof.replica_parents[i]) = graph_degree(pub_params.graph)
                 => Len(ret.val.replica_parents[i])
                      = graph_degree(pub_params.graph)

(* a witness built from a proof with a bundle of another size than degree *)
C10_Witness ==
    /\ Returned("circuit")
    /\ ret.ok
    /\ \E i \in 1..Len(proof.replica_parents) :
          Len(proof.replica_parents[i]) # graph_degree(pub_params.graph)

---------------------------------------------------------------------------
(* Properties of Column *)

(* C8: the hash of a column with exactly one row is that row as a domain
   value, with no hash applied; for every other number of rows, zero
   included, it is the column hash function of the ordered rows. *)
C8_ColumnHash ==
    Returned("hash") =>
        IF Len(column.rows) = 1
        THEN /\ ret = PedersenDom(column.rows[1][2])
             /\ ret # hash_single_column(column.rows)
        ELSE ret = hash_single_column(column.rows)

(* the hash of a column with one row *)
C8_Witness ==
    /\ Returned("hash")
    /\ Len(column.rows) = 1

(* C9: get_node_at_layer returns rows[layer-1] (zero-based) for
   1 <= layer <= rows.len(); layer 0 aborts without a row or a default, and
   layer > rows.len() fails too. *)
C9_NodeAtLayer ==
    Returned("get_node_at_layer") =>
        /\ (1 <= layer /\ layer <= Len(column.rows)) =>
               ret = Ok(column.rows[layer])
        /\ layer = 0 => ret = Panic
        /\ layer > Len(column.rows) => ret = Panic

(* a call with layer 0 on a column that has rows *)
C9_Witness ==
    /\ Returned("get_node_at_layer")
    /\ layer = 0
    /\ Len(column.rows) > 0
    /\ ~ret.ok

===========================================================================
